---- MODULE Spec2Model ----
(***************************************************************************)
(* Model of the request-forwarding engine of the reverse proxy             *)
(* (src/proxy.go, with responseRecorder.go and the logger).                *)
(*                                                                         *)
(* Text is modelled as a sequence of runs: a run is a one-character string *)
(* ("/", ",", " ", "%", ":") where the code looks at single characters,    *)
(* and an indivisible word ("keep-alive", "10.0.0.1") where it does not.   *)
(* The empty Go string "" is the empty sequence <<>>.                      *)
(***************************************************************************)
EXTENDS Integers, Sequences, FiniteSets, TLC

VARIABLES
    routes,     \* the route table: prefix -> backend base URL (var routes)
    r,          \* the inbound *http.Request: URL.Path, Header, RemoteAddr, Host
    pc,         \* where the operation under way stands
    mr,         \* what matchRoute returned: match, target, suffix
    req,        \* the outbound *http.Request: url, Header, Host
    res,        \* the backend's *http.Response: StatusCode, Header, Body
    recorder,   \* the responseRecorder: statusCode, bytesWritten
    w,          \* what the client was sent: statuses written, Header, body
    logs,       \* the LogEntry values handed to LogRequest, oldest first
    dispatches, \* number of p.client.Do calls made for the request
    backend,    \* the response as the backend produced it, before the relay
    outcome,    \* which return of ServeHTTP the request took
    hs,         \* header sets produced by successive stripHopByHopHeaders calls
    call,       \* p.client.Do under way: phase, requests sent, inbound body
    timer,      \* the http.Client's Timeout for the call
    ctx,        \* r.Context(): live, or cancelled because the client is gone
    wbuf,       \* body bytes the server's buffered writer holds, not yet sent
    chain,      \* the error handed to errorHandler: its chain, outermost first
    other,      \* the locals of a second request's goroutine while it does not run
    server      \* the http.Server and main: serving, draining, stopped, forced

vars == <<routes, r, pc, mr, req, res, recorder, w, logs, dispatches, backend,
          outcome, hs, call, timer, ctx, wbuf, chain, other, server>>

-----------------------------------------------------------------------------
(* Bounds of the model *)

\* longest request path, in characters
MaxPathLen == 4
\* most routes in a route table
MaxRoutes == 2
\* most values (header lines) one header name carries
MaxValues == 2
\* most header names besides Connection in a header set given to
\* stripHopByHopHeaders
MaxHeaders == 2
\* longest backend response body, in bytes
MaxBodyLen == 2
\* most redirects the http.Client follows for one request
MaxRedirects == 1
\* the size of the server's write buffer, in bytes
WriteBufferSize == 2
\* most wrappers around the cause of an error
MaxDepth == 3

-----------------------------------------------------------------------------
(* strings *)

\* strings.HasPrefix(s, prefix)
HasPrefix(s, prefix) ==
    /\ Len(prefix) <= Len(s)
    /\ SubSeq(s, 1, Len(prefix)) = prefix

\* strings.CutPrefix(s, prefix): (after, found); without the prefix s is
\* returned unchanged
CutPrefix(s, prefix) ==
    IF HasPrefix(s, prefix)
    THEN [after |-> SubSeq(s, Len(prefix) + 1, Len(s)), found |-> TRUE]
    ELSE [after |-> s, found |-> FALSE]

\* strings.Contains(s, sub)
Contains(s, sub) ==
    \E i \in 0..(Len(s) - Len(sub)) : SubSeq(s, i + 1, i + Len(sub)) = sub

\* all sequences over S of length at most n
RECURSIVE SeqUpTo(_, _)
SeqUpTo(S, n) ==
    IF n = 0 THEN {<<>>}
    ELSE LET shorter == SeqUpTo(S, n - 1)
         IN  shorter \cup {Append(s, c) : s \in shorter, c \in S}

\* all orders in which the elements of the finite set S can be visited
RECURSIVE Orders(_)
Orders(S) ==
    IF S = {} THEN {<<>>}
    ELSE UNION {{<<x>> \o o : o \in Orders(S \ {x})} : x \in S}

-----------------------------------------------------------------------------
(* route resolution: matchRoute *)

\* the zero values matchRoute starts from and returns on a miss
NoMatch == [match |-> <<>>, target |-> <<>>, suffix |-> <<>>]

\* a historical variant of the candidate test: any string prefix counts
RouteMatchesNoBoundary(path, prefix) ==
    CutPrefix(path, prefix).found

\* the candidate test of the loop body: the prefix is cut from the path and
\* what is left is empty or starts at a segment boundary
RouteMatches(path, prefix) ==
    LET c == CutPrefix(path, prefix)
    IN  c.found /\ (c.after = <<>> \/ HasPrefix(c.after, <<"/">>))

\* a variant that hands back the whole path as the remainder
RouteHitWholePath(path, prefix, t) ==
    [match |-> prefix, target |-> t, suffix |-> path]

\* the three assignments made for a candidate that wins
RouteHit(path, prefix, t) ==
    [match |-> prefix, target |-> t, suffix |-> CutPrefix(path, prefix).after]

\* a comparison that lets every candidate replace the best so far: the last
\* match visited wins
RouteBetterAny(prefix, best) == TRUE

\* the comparison that lets a candidate replace the best so far
RouteBetter(prefix, best) ==
    Len(prefix) > Len(best.match)

\* the range loop of matchRoute, visiting the map's keys in the given order
RECURSIVE matchRouteFrom(_, _, _, _, _)
matchRouteFrom(path, rts, order, i, best) ==
    IF i > Len(order) THEN best
    ELSE LET prefix == order[i]
             t      == rts[prefix]
         IN  matchRouteFrom(path, rts, order, i + 1,
                 IF RouteMatches(path, prefix) /\ RouteBetter(prefix, best)
                 THEN RouteHit(path, prefix, t)
                 ELSE best)

matchRoute(path, rts, order) ==
    matchRouteFrom(path, rts, order, 1, NoMatch)

-----------------------------------------------------------------------------
(* http.Header: canonical header name -> the values of its header lines *)

\* one-based index of the first run of s equal to c, 0 when there is none
\* (strings.IndexByte, which answers -1 there)
Index(s, c) ==
    IF \E i \in 1..Len(s) : s[i] = c
    THEN CHOOSE i \in 1..Len(s) : s[i] = c /\ \A j \in 1..(i - 1) : s[j] # c
    ELSE 0

\* one-based index of the last run of s equal to c, 0 when there is none
LastIndex(s, c) ==
    IF \E i \in 1..Len(s) : s[i] = c
    THEN CHOOSE i \in 1..Len(s) : s[i] = c /\ \A j \in (i + 1)..Len(s) : s[j] # c
    ELSE 0

\* strings.Split(s, sep) for a one-character separator
RECURSIVE Split(_, _)
Split(s, sep) ==
    LET i == Index(s, sep)
    IN  IF i = 0 THEN <<s>>
        ELSE <<SubSeq(s, 1, i - 1)>> \o Split(SubSeq(s, i + 1, Len(s)), sep)

\* strings.TrimSpace(s)
RECURSIVE TrimSpace(_)
TrimSpace(s) ==
    IF s = <<>> THEN s
    ELSE IF Head(s) = " " THEN TrimSpace(Tail(s))
    ELSE IF s[Len(s)] = " " THEN TrimSpace(SubSeq(s, 1, Len(s) - 1))
    ELSE s

\* textproto.CanonicalMIMEHeaderKey on one word: the first letter and every
\* letter after a hyphen upper case, the rest lower case
CanonicalWord(word) ==
    CASE word = "connection"      -> "Connection"
      [] word = "keep-alive"      -> "Keep-Alive"
      [] word = "TE"              -> "Te"
      [] word = "x-foo"           -> "X-Foo"
      [] word = "X-Real-IP"       -> "X-Real-Ip"
      [] word = "close"           -> "Close"
      [] OTHER                    -> word

\* a variant of Del that drops one header line instead of the whole entry
DelFirstValue(h, key) ==
    LET k == CanonicalWord(key)
    IN  IF k \notin DOMAIN h THEN h
        ELSE IF Len(h[k]) <= 1 THEN [n \in DOMAIN h \ {k} |-> h[n]]
        ELSE [h EXCEPT ![k] = Tail(h[k])]

\* Header.Del(key)
Del(h, key) ==
    LET k == CanonicalWord(key)
    IN  [n \in DOMAIN h \ {k} |-> h[n]]

\* Header.Get(key): the first value of the entry, "" without one
Get(h, key) ==
    LET k == CanonicalWord(key)
    IN  IF k \in DOMAIN h /\ Len(h[k]) > 0 THEN h[k][1] ELSE <<>>

\* a variant of Set that adds a header line (Header.Add)
SetAppends(h, key, value) ==
    LET k == CanonicalWord(key)
    IN  [n \in DOMAIN h \cup {k} |->
            IF n = k
            THEN (IF k \in DOMAIN h THEN h[k] ELSE <<>>) \o <<value>>
            ELSE h[n]]

\* Header.Set(key, value): the entry becomes the single value
Set(h, key, value) ==
    LET k == CanonicalWord(key)
    IN  [n \in DOMAIN h \cup {k} |-> IF n = k THEN <<value>> ELSE h[n]]

\* Header.Del of a token read from a header value.  A token of one word is
\* a header name; the empty token and a token with a space inside name no
\* entry of a header set (CanonicalMIMEHeaderKey leaves them as they are
\* and no parsed header has such a name).
DelToken(h, token) ==
    IF Len(token) = 1 THEN Del(h, token[1]) ELSE h

\* var hopByHopHeaders
hopByHopHeaders ==
    <<"Connection", "Keep-Alive", "Proxy-Authenticate", "Proxy-Authorization",
      "Proxy-Connection", "TE", "Trailer", "Transfer-Encoding", "Upgrade">>

\* the first loop of stripHopByHopHeaders: for _, token := range tokens
RECURSIVE DelTokens(_, _, _)
DelTokens(h, tokens, i) ==
    IF i > Len(tokens) THEN h
    ELSE DelTokens(DelToken(h, TrimSpace(tokens[i])), tokens, i + 1)

\* the second loop of stripHopByHopHeaders: for _, hdr := range hopByHopHeaders
RECURSIVE DelHeaders(_, _, _)
DelHeaders(h, names, i) ==
    IF i > Len(names) THEN h
    ELSE DelHeaders(Del(h, names[i]), names, i + 1)

\* a variant that drops one header line of each fixed header
RECURSIVE DelHeadersFirstValue(_, _, _)
DelHeadersFirstValue(h, names, i) ==
    IF i > Len(names) THEN h
    ELSE DelHeadersFirstValue(DelFirstValue(h, names[i]), names, i + 1)

\* a variant of stripHopByHopHeaders whose second loop drops one line each
stripFirstValues(h) ==
    LET connection == Get(h, "Connection")
        h1 == IF connection # <<>>
              THEN DelTokens(h, Split(connection, ","), 1)
              ELSE h
    IN  DelHeadersFirstValue(h1, hopByHopHeaders, 1)

\* stripHopByHopHeaders(h)
stripHopByHopHeaders(h) ==
    LET connection == Get(h, "Connection")
        h1 == IF connection # <<>>
              THEN DelTokens(h, Split(connection, ","), 1)
              ELSE h
    IN  DelHeaders(h1, hopByHopHeaders, 1)

-----------------------------------------------------------------------------
(* net.SplitHostPort, as setProxyHeaders and the deferred log entry use it *)

\* net.SplitHostPort(hostport): host and whether an error was returned
SplitHostPort(hostport) ==
    LET n    == Len(hostport)
        i    == LastIndex(hostport, ":")
        fail == [host |-> <<>>, err |-> TRUE]
    IN  IF i = 0 THEN fail                              \* missing port
        ELSE IF hostport[1] = "["
        THEN LET end == Index(hostport, "]")
             IN  IF end = 0 THEN fail                   \* missing ']'
                 ELSE IF end + 1 # i THEN fail          \* missing port, too many colons
                 ELSE IF Index(SubSeq(hostport, 2, n), "[") # 0 THEN fail
                 ELSE IF Index(SubSeq(hostport, end + 1, n), "]") # 0 THEN fail
                 ELSE [host |-> SubSeq(hostport, 2, end - 1), err |-> FALSE]
        ELSE LET host == SubSeq(hostport, 1, i - 1)
             IN  IF Index(host, ":") # 0 THEN fail      \* too many colons
                 ELSE IF Index(hostport, "[") # 0 THEN fail
                 ELSE IF Index(hostport, "]") # 0 THEN fail
                 ELSE [host |-> host, err |-> FALSE]

-----------------------------------------------------------------------------
(* outbound request preparation: http.NewRequest and setProxyHeaders *)

\* a header set without entries
EmptyHeader == [n \in {} |-> <<>>]

\* the backend base URLs of var routes, and one that url.Parse rejects
Backend1 == <<"http://localhost:8081">>
Backend2 == <<"http://localhost:8082">>
BackendMalformed == <<"http://local host:8083">>

HexDigits ==
    {"0", "1", "2", "3", "4", "5", "6", "7", "8", "9",
     "a", "b", "c", "d", "e", "f", "A", "B", "C", "D", "E", "F"}

\* whether url.Parse, which http.NewRequest calls, rejects the target URL:
\* a space in the host, or a "%" that does not start a two-digit hex escape
ParseFails(url) ==
    \/ \E i \in 1..Len(url) : url[i] = "http://local host:8083"
    \/ \E i \in 1..Len(url) :
          /\ url[i] = "%"
          /\ ~(i + 2 <= Len(url) /\ url[i + 1] \in HexDigits /\ url[i + 2] \in HexDigits)

\* the host of a parsed target URL, which http.NewRequest stores in req.Host
URLHost(url) ==
    CASE HasPrefix(url, Backend1) -> <<"localhost:8081">>
      [] HasPrefix(url, Backend2) -> <<"localhost:8082">>
      [] OTHER                    -> <<>>

\* the outbound request before http.NewRequest has made one
NoRequest == [url |-> <<>>, Header |-> EmptyHeader, Host |-> <<>>]

\* http.NewRequest(r.Method, targetURL, r.Body), when the URL parses
NewRequest(url) ==
    [url |-> url, Header |-> EmptyHeader, Host |-> URLHost(url)]

\* a client IP taken from net.SplitHostPort with its error dropped, as the
\* deferred log entry takes it
proxyClientIPHostOnly(remoteAddr) == SplitHostPort(remoteAddr).host

\* the client IP setProxyHeaders derives from src.RemoteAddr
proxyClientIP(remoteAddr) ==
    LET sp == SplitHostPort(remoteAddr)
    IN  IF sp.err THEN remoteAddr ELSE sp.host

\* the header set setProxyHeaders builds: a clone of the inbound one,
\* stripped, with X-Real-IP, X-Forwarded-Proto and X-Forwarded-For set
proxyHeaders(src) ==
    LET clientIP == proxyClientIP(src.RemoteAddr)
        h1 == stripHopByHopHeaders(src.Header)
        h2 == Set(h1, "X-Real-IP", clientIP)
        h3 == Set(h2, "X-Forwarded-Proto", <<"http">>)
        existing == Get(h3, "X-Forwarded-For")
    IN  IF existing # <<>>
        THEN Set(h3, "X-Forwarded-For", existing \o <<",", " ">> \o clientIP)
        ELSE Set(h3, "X-Forwarded-For", clientIP)

\* the earlier setProxyHeaders, which left dst.Host as NewRequest set it
setProxyHeadersKeepsHost(dst, src) ==
    [dst EXCEPT !.Header = proxyHeaders(src)]

\* setProxyHeaders(dst, src)
setProxyHeaders(dst, src) ==
    [dst EXCEPT !.Header = proxyHeaders(src), !.Host = src.Host]

\* src after a setProxyHeaders that took src.Header itself for dst.Header:
\* one map under two names, changed under both
setProxyHeadersInboundShared(dst, src) ==
    [src EXCEPT !.Header = proxyHeaders(src)]

\* src after setProxyHeaders(dst, src): dst.Header = src.Header.Clone() is a
\* map of its own with slices of its own, so the Dels and Sets that follow
\* reach nothing src holds
setProxyHeadersInbound(dst, src) == src

-----------------------------------------------------------------------------
(* the response sink: responseRecorder around the server's ResponseWriter *)

\* the configured request body ceiling
maxBodySize == 10485760

StatusOK == 200
StatusNotFound == 404
StatusRequestEntityTooLarge == 413
StatusInternalServerError == 500
StatusBadGateway == 502
StatusGatewayTimeout == 504

\* the recorder and the sink before ServeHTTP has built them
NoRecorder == [statusCode |-> 0, bytesWritten |-> 0]
NoSink == [Header |-> EmptyHeader, status |-> <<>>, body |-> <<>>]

\* a response sink: the recorder's fields and what went on to the client
Sink(rec, cli) == [recorder |-> rec, w |-> cli]

\* a recorder without a WriteHeader of its own: the embedded ResponseWriter's
\* is called and statusCode stays as it was made
WriteHeaderUnrecorded(s, code) ==
    Sink(s.recorder, [s.w EXCEPT !.status = Append(@, code)])

\* responseRecorder.WriteHeader(code); the server's writer sends the first
\* status line it is given
WriteHeader(s, code) ==
    Sink([s.recorder EXCEPT !.statusCode = code],
         [s.w EXCEPT !.status = Append(@, code)])

\* a recorder that counts the bytes it was given, not the bytes taken
WriteCountsGiven(s, b, n) ==
    Sink([s.recorder EXCEPT !.bytesWritten = @ + Len(b)],
         [s.w EXCEPT !.status = IF @ = <<>> THEN <<StatusOK>> ELSE @,
                     !.body = @ \o SubSeq(b, 1, n)])

\* responseRecorder.Write(b) of which the client takes the first n bytes;
\* the server's writer sends status 200 first when none was written
Write(s, b, n) ==
    Sink([s.recorder EXCEPT !.bytesWritten = @ + n],
         [s.w EXCEPT !.status = IF @ = <<>> THEN <<StatusOK>> ELSE @,
                     !.body = @ \o SubSeq(b, 1, n)])

\* http.Error(w, error, code): plain-text headers, the status, the message
\* and a line feed
httpError(s, error, code) ==
    LET h  == Set(Set(Del(s.w.Header, "Content-Length"),
                      "Content-Type", <<"text/plain; charset=utf-8">>),
                  "X-Content-Type-Options", <<"nosniff">>)
        s1 == WriteHeader(Sink(s.recorder, [s.w EXCEPT !.Header = h]), code)
        b  == error \o <<"\n">>
    IN  Write(s1, b, Len(b))

\* http.NotFound(w, r)
NotFoundText ==
    <<"4", "0", "4", " ", "p", "a", "g", "e", " ", "n", "o", "t", " ",
      "f", "o", "u", "n", "d">>

\* the value ServeHTTP's deferred function hands to LogRequest
LogEntry(rq, m, rec) ==
    [Path         |-> rq.Path,
     Backend      |-> m.target,
     Status       |-> rec.statusCode,
     ClientIP     |-> SplitHostPort(rq.RemoteAddr).host,
     RequestSize  |-> IF rq.ContentLength < 0 THEN 0 ELSE rq.ContentLength,
     ResponseSize |-> rec.bytesWritten]

\* a variant of the deferred function that logs proxied requests only
LogRequestOnHit(entries, rq, m, rec) ==
    IF m.match = <<>> THEN entries ELSE Append(entries, LogEntry(rq, m, rec))

\* the deferred function of ServeHTTP, run at every return
LogRequest(entries, rq, m, rec) ==
    Append(entries, LogEntry(rq, m, rec))

-----------------------------------------------------------------------------
(* the inputs the model draws *)

\* the elements of a sequence
Range(s) == {s[i] : i \in 1..Len(s)}

\* the subsets of S with at most n elements
SubsetsUpTo(S, n) == {T \in SUBSET S : Cardinality(T) <= n}

\* request paths: "/" followed by segment characters
PathChars == {"/", "s", "x", "%"}
Paths == {<<"/">> \o p : p \in SeqUpTo(PathChars, MaxPathLen - 1)}

\* route prefixes a table may configure, each with its backend base URL
RoutePrefixes ==
    {<<>>, <<"/">>, <<"/", "s">>, <<"/", "x">>, <<"/", "s", "/">>,
     <<"/", "s", "x">>, <<"/", "s", "/", "x">>, <<"/", "s", "/", "s">>}

TargetFor(prefix) ==
    CASE prefix = <<"/", "s">>           -> Backend1
      [] prefix = <<"/", "s", "/", "s">> -> BackendMalformed
      [] Len(prefix) = 3                 -> Backend1
      [] OTHER                           -> Backend2

RouteTables ==
    {[p \in S |-> TargetFor(p)] : S \in SubsetsUpTo(RoutePrefixes, MaxRoutes)}

\* remote addresses: host:port, a bare host, bracketed IPv6 with a port,
\* bare IPv6, bracketed IPv6 without a port
RemoteAddrs ==
    {<<"192.168.1.1", ":", "12345">>,
     <<"10.0.0.1">>,
     <<"[", ":", ":", "1", "]", ":", "8080">>,
     <<":", ":", "1">>,
     <<"[", ":", ":", "1", "]">>}

\* a header set: the given Connection lines (none: no Connection header),
\* the given X-Forwarded-For and X-Real-IP lines, and one line "v" for
\* each of the other names
MakeHeader(conn, xff, realip, names) ==
    LET dom == names
               \cup (IF conn = <<>> THEN {} ELSE {"Connection"})
               \cup (IF xff = <<>> THEN {} ELSE {"X-Forwarded-For"})
               \cup (IF realip = <<>> THEN {} ELSE {"X-Real-Ip"})
    IN  [n \in dom |->
            CASE n = "Connection"      -> conn
              [] n = "X-Forwarded-For" -> xff
              [] n = "X-Real-Ip"       -> realip
              [] OTHER                 -> << <<"v">> >>]

\* header sets given to stripHopByHopHeaders on its own
StripConnectionValues ==
    {<<"close">>, <<"x-foo">>, <<" ", "X-Bar", " ", ",", "keep-alive">>, <<>>}
StripNames ==
    {"Keep-Alive", "Proxy-Authenticate", "Proxy-Authorization",
     "Proxy-Connection", "Te", "Trailer", "Transfer-Encoding", "Upgrade",
     "X-Foo", "X-Bar", "Authorization"}
StripInputs ==
    {MakeHeader(conn, <<>>, <<>>, names) :
        conn \in SeqUpTo(StripConnectionValues, MaxValues),
        names \in SubsetsUpTo(StripNames, MaxHeaders)}

\* inbound header sets given to setProxyHeaders
ForwardedForValues ==
    {<<"10.0.0.1">>, <<"10.0.0.1", ",", " ", "10.0.0.2">>, <<>>}
RealIPValues == {<<"6.6.6.6">>}
ProxyConnections ==
    {<<>>, << <<"close">> >>, << <<"X-Forwarded-For">> >>,
     << <<"X-Real-IP", ",", "X-Forwarded-Proto">> >>,
     << <<"close">>, <<"X-Forwarded-For">> >>}
ProxyInputs ==
    {MakeHeader(conn, xff, realip, names) :
        conn \in ProxyConnections,
        xff \in SeqUpTo(ForwardedForValues, MaxValues),
        realip \in SeqUpTo(RealIPValues, MaxValues),
        names \in {{}, {"Authorization"}}}

Hosts == {<<"proxy.example">>, <<"localhost:8081">>}

\* an inbound request
Request(path, header, remoteAddr, host, bodyLen, contentLength) ==
    [Path |-> path, Header |-> header, RemoteAddr |-> remoteAddr, Host |-> host,
     BodyLen |-> bodyLen, ContentLength |-> contentLength]

\* the response a backend produced, before ServeHTTP has one
NoResponse == [StatusCode |-> 0, Header |-> EmptyHeader, Body |-> <<>>, read |-> 0]

\* p.client.Do before it is called
NoCall ==
    [phase |-> "idle", sent |-> 0, body |-> "pending", early |-> FALSE,
     cause |-> "none"]

\* no second request
NoOther == <<>>

\* the state before a request is handled, but for the route table, the
\* request and where it stands
Quiet ==
    /\ mr = NoMatch
    /\ req = NoRequest
    /\ res = NoResponse
    /\ backend = NoResponse
    /\ recorder = NoRecorder
    /\ w = NoSink
    /\ logs = <<>>
    /\ dispatches = 0
    /\ outcome = "none"
    /\ call = NoCall
    /\ timer = "idle"
    /\ ctx = "live"
    /\ wbuf = 0
    /\ chain = <<>>
    /\ server = "serving"

\* the state as ServeHTTP is about to run for the one request there is
Idle ==
    /\ pc = "start"
    /\ other = NoOther
    /\ Quiet

-----------------------------------------------------------------------------
(* proxy.ServeHTTP, step by step *)

\* http.HandleFunc("/health", healthCheckHandler) and http.Handle("/", &proxy{}):
\* the pattern the default mux picks for a path
HealthPath == <<"/", "health">>
MuxPatternProxyOnly(path) == "/"
MuxPattern(path) == IF path = HealthPath THEN "/health" ELSE "/"

\* healthCheckHandler: 200 and "OK", written to the client as it is
healthCheckHandler ==
    /\ pc = "start"
    /\ MuxPattern(r.Path) = "/health"
    /\ w' = [w EXCEPT !.status = Append(@, StatusOK), !.body = @ \o <<"O", "K">>]
    /\ outcome' = "Health"
    /\ pc' = "done"
    /\ UNCHANGED <<routes, r, mr, req, res, recorder, logs, dispatches, backend,
                   hs, call, timer, ctx,
                   wbuf, chain, other, server>>

\* ServeHTTP up to the route lookup: the body ceiling, the recorder, and
\* matchRoute over the map in the order the runtime happens to visit it
ServeHTTPBegin ==
    /\ pc = "start"
    /\ MuxPattern(r.Path) = "/"
    /\ \E order \in Orders(DOMAIN routes) :
          mr' = matchRoute(r.Path, routes, order)
    /\ recorder' = [statusCode |-> StatusOK, bytesWritten |-> 0]
    /\ pc' = "matched"
    /\ UNCHANGED <<routes, r, req, res, w, logs, dispatches, backend, outcome, hs,
                   call, timer, ctx,
                   wbuf, chain, other, server>>

\* no route matched: http.NotFound, then the deferred log entry
ServeNotFound ==
    /\ pc = "matched"
    /\ mr.match = <<>>
    /\ LET s == httpError(Sink(recorder, w), NotFoundText, StatusNotFound)
       IN  /\ recorder' = s.recorder
           /\ w' = s.w
           /\ logs' = LogRequest(logs, r, mr, s.recorder)
    /\ outcome' = "RouteMiss"
    /\ pc' = "done"
    /\ UNCHANGED <<routes, r, mr, req, res, dispatches, backend, hs, call, timer,
                   ctx,
                   wbuf, chain, other, server>>

\* http.NewRequest rejects the target URL: 500, then the deferred log entry
ServeNewRequestFails ==
    /\ pc = "matched"
    /\ mr.match # <<>>
    /\ ParseFails(mr.target \o mr.suffix)
    /\ LET s == httpError(Sink(recorder, w), <<"Failed to create request">>,
                          StatusInternalServerError)
       IN  /\ recorder' = s.recorder
           /\ w' = s.w
           /\ logs' = LogRequest(logs, r, mr, s.recorder)
    /\ outcome' = "PrepareFailure"
    /\ pc' = "done"
    /\ UNCHANGED <<routes, r, mr, req, res, dispatches, backend, hs, call, timer,
                   ctx,
                   wbuf, chain, other, server>>

\* a ServeHTTP that goes on to build the outbound request without looking at
\* the result of the lookup
ServePrepareOnMiss ==
    /\ pc = "matched"
    /\ ~ParseFails(mr.target \o mr.suffix)
    /\ req' = setProxyHeaders(NewRequest(mr.target \o mr.suffix), r)
    /\ r' = setProxyHeadersInbound(NewRequest(mr.target \o mr.suffix), r)
    /\ pc' = "prepared"
    /\ UNCHANGED <<routes, mr, res, recorder, w, logs, dispatches, backend,
                   outcome, hs, call, timer, ctx,
                   wbuf, chain, other, server>>

\* a ServeHTTP that looks the route up again when it builds the outbound
\* request
ServePrepareResolvesAgain ==
    /\ pc = "matched"
    /\ mr.match # <<>>
    /\ ~ParseFails(mr.target \o mr.suffix)
    /\ \E order \in Orders(DOMAIN routes) :
          LET again == matchRoute(r.Path, routes, order)
          IN  req' = setProxyHeaders(NewRequest(again.target \o again.suffix), r)
    /\ r' = setProxyHeadersInbound(NewRequest(mr.target \o mr.suffix), r)
    /\ pc' = "prepared"
    /\ UNCHANGED <<routes, mr, res, recorder, w, logs, dispatches, backend,
                   outcome, hs, call, timer, ctx,
                   wbuf, chain, other, server>>

\* http.NewRequest and setProxyHeaders build the outbound request
ServePrepare ==
    /\ pc = "matched"
    /\ mr.match # <<>>
    /\ ~ParseFails(mr.target \o mr.suffix)
    /\ req' = setProxyHeaders(NewRequest(mr.target \o mr.suffix), r)
    /\ r' = setProxyHeadersInbound(NewRequest(mr.target \o mr.suffix), r)
    /\ pc' = "prepared"
    /\ UNCHANGED <<routes, mr, res, recorder, w, logs, dispatches, backend,
                   outcome, hs, call, timer, ctx,
                   wbuf, chain, other, server>>

\* a failed p.client.Do: whether a *http.MaxBytesError is in the error's
\* chain, and whether the error reports a timeout
DispatchError(maxBytes, timeout) == [maxBytes |-> maxBytes, timeout |-> timeout]

\* a ceiling that a body of exactly maxBodySize bytes already meets
ExceedsCeilingInclusive(n) == n >= maxBodySize

\* r.Body = http.MaxBytesReader(w, r.Body, maxBodySize): a Read fails once the
\* body has turned out longer than the ceiling
ExceedsCeiling(n) == n > maxBodySize

\* what ends a p.client.Do without a response, and the error it returns for
\* it: the backend refuses the connection, the dial times out, a Read of the
\* inbound body hits the ceiling or fails because the client is gone, or the
\* client's Timeout passes
DoCauses == {"refused", "dialTimeout", "ceiling", "bodyRead", "deadline"}

\* An error value is its chain, the outermost error first and each next one
\* what Unwrap gives.  The errors that pass the Timeout method of the error
\* they hold on as their own, the one that wraps without any such method
\* (fmt.Errorf with %w), and the errors whose Timeout method reports true.
TimeoutForwarders == {"url.Error", "OpError", "SyscallError"}
PlainWrappers == {"wrapError"}
TimeoutLeaves == {"DeadlineExceeded", "timeoutError", "i/o timeout"}

\* a test of the outermost error only, as a type assertion makes it
AsOutermost(e, kind) == e # <<>> /\ e[1] = kind

\* errors.As(err, &target): some error of the chain has the type
As(e, kind) == \E i \in 1..Len(e) : e[i] = kind

\* errors.Is(err, context.DeadlineExceeded): some error of the chain is it,
\* or says it is, as the http.Client's own timeout error does
IsDeadlineExceeded(e) ==
    \E i \in 1..Len(e) : e[i] \in {"DeadlineExceeded", "timeoutError"}

\* os.IsTimeout(err): the Timeout method of err itself, where it has one
RECURSIVE IsTimeout(_)
IsTimeout(e) ==
    IF e = <<>> THEN FALSE
    ELSE IF e[1] \in TimeoutForwarders THEN IsTimeout(Tail(e))
    ELSE e[1] \in TimeoutLeaves

\* what the error branch finds out of an error
Flags(e) ==
    DispatchError(As(e, "MaxBytesError"), IsTimeout(e) \/ IsDeadlineExceeded(e))

\* the error p.client.Do returns for each cause
DoChain(cause) ==
    CASE cause = "ceiling" -> <<"url.Error", "MaxBytesError">>
      [] cause = "deadline" -> <<"url.Error", "timeoutError">>
      [] cause = "dialTimeout" -> <<"url.Error", "OpError", "i/o timeout">>
      [] cause = "refused" ->
            <<"url.Error", "OpError", "SyscallError", "ECONNREFUSED">>
      [] OTHER -> <<"url.Error", "unexpected EOF">>

DoError(cause) == Flags(DoChain(cause))

\* the error branch that sent every failure back as 502, as ServeHTTP first
\* had it
classifyAllBadGateway(err) ==
    [message |-> <<"Failed to reach target service">>, status |-> StatusBadGateway]

\* an error branch without the timeout test
classifyNoTimeout(err) ==
    IF err.maxBytes
    THEN [message |-> <<"Request body too large">>,
          status |-> StatusRequestEntityTooLarge]
    ELSE [message |-> <<"Failed to reach target service">>,
          status |-> StatusBadGateway]

\* the message and status the error branch of ServeHTTP answers with
classify(err) ==
    IF err.maxBytes
    THEN [message |-> <<"Request body too large">>,
          status |-> StatusRequestEntityTooLarge]
    ELSE IF err.timeout
    THEN [message |-> <<"backend timeout">>, status |-> StatusGatewayTimeout]
    ELSE [message |-> <<"Failed to reach target service">>,
          status |-> StatusBadGateway]

\* the ForwardOutcome kind of a classified dispatch failure
FailureKind(err) ==
    IF err.maxBytes THEN "BodyTooLarge"
    ELSE IF err.timeout THEN "Timeout" ELSE "Unreachable"

\* responses a backend may produce
ResponseStatuses == {200, 404, 503}
ResponseConnections ==
    {<<>>, << <<"close">> >>, << <<"x-foo">> >>, << <<"close">>, <<"x-foo">> >>}
ResponseNames ==
    {{"Content-Type"}, {"Content-Type", "X-Foo"},
     {"Content-Type", "Keep-Alive", "X-Foo"}}
ResponseHeaders ==
    {MakeHeader(conn, <<>>, <<>>, names) :
        conn \in ResponseConnections, names \in ResponseNames}
BodyBytes == {"a", "b"}
\* every header set with status 200, every status with the plainest header set
BackendResponses ==
    {[StatusCode |-> st, Header |-> h, Body |-> b, read |-> 0] :
        st \in {StatusOK}, h \in ResponseHeaders,
        b \in SeqUpTo(BodyBytes, MaxBodyLen)}
    \cup
    {[StatusCode |-> st, Header |-> h, Body |-> b, read |-> 0] :
        st \in ResponseStatuses,
        h \in {MakeHeader(<<>>, <<>>, <<>>, {"Content-Type"})},
        b \in SeqUpTo(BodyBytes, MaxBodyLen)}

\* the statuses that make an http.Client without a CheckRedirect send a
\* further request when the response names a Location; the outbound body has
\* no GetBody, so 307 and 308 are returned as they are
RedirectStatuses == {301, 302, 303}

\* for k, v := range res.Header { w.Header()[k] = v }
CopyHeader(dst, src) ==
    [n \in DOMAIN dst \cup DOMAIN src |-> IF n \in DOMAIN src THEN src[n] ELSE dst[n]]

\* res, err := p.client.Do(req): the client starts its Timeout and dials
ServeDo ==
    /\ pc = "prepared"
    /\ dispatches' = dispatches + 1
    /\ call' = [call EXCEPT !.phase = "dialing"]
    /\ timer' = "running"
    /\ pc' = "dispatching"
    /\ UNCHANGED <<routes, r, mr, req, res, recorder, w, logs, backend, outcome,
                   hs, ctx,
                   wbuf, chain, other, server>>

\* p.client.Do returns an error: the classified answer, then the deferred
\* log entry
ServeDoFails(cause) ==
    /\ pc = "dispatching"
    /\ LET err == DoError(cause)
           c == classify(err)
           s == httpError(Sink(recorder, w), c.message, c.status)
       IN  /\ recorder' = s.recorder
           /\ w' = s.w
           /\ logs' = LogRequest(logs, r, mr, s.recorder)
           /\ outcome' = FailureKind(err)
    /\ call' = [call EXCEPT !.phase = "returned", !.cause = cause]
    /\ timer' = IF cause = "deadline" THEN "fired" ELSE "stopped"
    /\ pc' = "done"
    /\ UNCHANGED <<routes, r, mr, req, res, dispatches, backend, hs, ctx,
                   wbuf, chain, other, server>>

\* the backend refuses the connection, or the dial gets no answer in time
DoDialFails ==
    /\ call.phase = "dialing"
    /\ \E cause \in {"refused", "dialTimeout"} : ServeDoFails(cause)

\* the connection is made and the request starts to go out
DoConnects ==
    /\ pc = "dispatching"
    /\ call.phase = "dialing"
    /\ call' = [call EXCEPT !.phase = "connected", !.sent = @ + 1]
    /\ UNCHANGED <<routes, r, pc, mr, req, res, recorder, w, logs, dispatches,
                   backend, outcome, hs, timer, ctx,
                   wbuf, chain, other, server>>

\* the transport has read the inbound body to its end and sent it on
DoBodyForwarded ==
    /\ pc = "dispatching"
    /\ call.phase = "connected"
    /\ call.sent = 1
    /\ call.body = "pending"
    /\ ~ExceedsCeiling(r.BodyLen)
    /\ call' = [call EXCEPT !.body = "forwarded"]
    /\ UNCHANGED <<routes, r, pc, mr, req, res, recorder, w, logs, dispatches,
                   backend, outcome, hs, timer, ctx,
                   wbuf, chain, other, server>>

\* a Read of the inbound body goes past the ceiling: the request is given up
\* with the *http.MaxBytesError
DoBodyTooLarge ==
    /\ call.phase = "connected"
    /\ call.sent = 1
    /\ call.body = "pending"
    /\ ExceedsCeiling(r.BodyLen)
    /\ ServeDoFails("ceiling")

\* a Read of the inbound body fails because the client is gone
DoBodyReadFails ==
    /\ call.phase = "connected"
    /\ call.sent = 1
    /\ call.body = "pending"
    /\ r.BodyLen > 0
    /\ ctx = "cancelled"
    /\ ServeDoFails("bodyRead")

\* an http.Client built without a Timeout: no deadline ever passes
DoDeadlineNever ==
    /\ FALSE
    /\ UNCHANGED vars

\* the client's Timeout passes before response headers have arrived
DoDeadline ==
    /\ timer = "running"
    /\ ServeDoFails("deadline")

\* the backend answers 301, 302 or 303 with a Location: the client sends a
\* request of its own to that place
DoRedirected ==
    /\ pc = "dispatching"
    /\ call.phase = "connected"
    /\ call.sent <= MaxRedirects
    /\ \E st \in RedirectStatuses :
          call' = [call EXCEPT !.phase = "dialing",
                               !.early = @ \/ (call.sent = 1 /\ call.body = "pending")]
    /\ UNCHANGED <<routes, r, pc, mr, req, res, recorder, w, logs, dispatches,
                   backend, outcome, hs, timer, ctx,
                   wbuf, chain, other, server>>

\* p.client.Do returns a response: its headers are stripped and copied and
\* its status written
ServeDoResponds ==
    /\ pc = "dispatching"
    /\ call.phase = "connected"
    /\ \E resp \in BackendResponses :
          LET h == stripHopByHopHeaders(resp.Header)
              s == WriteHeader(Sink(recorder,
                                    [w EXCEPT !.Header = CopyHeader(@, h)]),
                               resp.StatusCode)
          IN  /\ backend' = resp
              /\ res' = [resp EXCEPT !.Header = h]
              /\ recorder' = s.recorder
              /\ w' = s.w
    /\ call' = [call EXCEPT !.phase = "returned", !.cause = "response",
                            !.early = @ \/ (call.sent = 1 /\ call.body = "pending")]
    /\ pc' = "stream"
    /\ UNCHANGED <<routes, r, mr, req, logs, dispatches, outcome, hs, timer, ctx,
                   wbuf, chain, other, server>>

\* the error values given to errorHandler: a cause under up to MaxDepth
\* wrappers
ErrorCauses ==
    {"MaxBytesError", "DeadlineExceeded", "timeoutError", "i/o timeout",
     "ECONNREFUSED", "errorString"}
ErrorChains ==
    {ws \o <<c>> :
        ws \in SeqUpTo({"url.Error", "OpError"} \cup PlainWrappers, MaxDepth),
        c \in ErrorCauses}

\* errorHandler(w, r, err) for a request without a proxyError in its context
errorHandler ==
    /\ pc = "error"
    /\ chain # <<>>
    /\ LET c == classify(Flags(chain))
           s == httpError(Sink(recorder, w), c.message, c.status)
       IN  w' = s.w
    /\ outcome' = FailureKind(Flags(chain))
    /\ pc' = "done"
    /\ UNCHANGED <<routes, r, mr, req, res, recorder, logs, dispatches, backend,
                   hs, call, timer, ctx, wbuf, chain, other, server>>

\* the client goes away while p.client.Do is in flight: the server cancels
\* r.Context(); the outbound request was built by http.NewRequest and does
\* not carry that context
ClientDisconnects ==
    /\ pc = "dispatching"
    /\ ctx = "live"
    /\ ctx' = "cancelled"
    /\ UNCHANGED <<routes, r, pc, mr, req, res, recorder, w, logs, dispatches,
                   backend, outcome, hs, call, timer,
                   wbuf, chain, other, server>>

\* The server hands the handler a ResponseWriter that writes into a buffer of
\* its own: the bytes of a Write go on the connection when the buffer
\* overflows, when the handler calls Flush, and when the handler returns.
\* How many bytes the buffer holds after a Write of n bytes finds held bytes
\* in it (bufio.Writer.Write).
BufWrite(held, n) ==
    IF n <= WriteBufferSize - held THEN held + n
    ELSE IF held = 0 THEN 0
    ELSE LET rest == n - (WriteBufferSize - held)
         IN  IF rest > WriteBufferSize THEN 0 ELSE rest

\* io.Copy: one Read of the backend body, written whole to the client
ServeCopyChunk ==
    /\ pc = "stream"
    /\ \E n \in 1..(Len(res.Body) - res.read) :
          LET b == SubSeq(res.Body, res.read + 1, res.read + n)
              s == Write(Sink(recorder, w), b, n)
          IN  /\ recorder' = s.recorder
              /\ w' = s.w
              /\ res' = [res EXCEPT !.read = @ + n]
              /\ wbuf' = BufWrite(wbuf, n)
    /\ UNCHANGED <<routes, r, pc, mr, req, logs, dispatches, backend, outcome, hs,
                   call, timer, ctx,
                   chain, other, server>>

\* io.Copy: the client takes only part of a chunk and the Write fails; the
\* copy ends, ServeHTTP returns and the deferred log entry is made
ServeCopyWriteFails ==
    /\ pc = "stream"
    /\ \E n \in 1..(Len(res.Body) - res.read) : \E k \in 0..(n - 1) :
          LET b == SubSeq(res.Body, res.read + 1, res.read + n)
              s == Write(Sink(recorder, w), b, k)
          IN  /\ recorder' = s.recorder
              /\ w' = s.w
              /\ res' = [res EXCEPT !.read = @ + n]
              /\ logs' = LogRequest(logs, r, mr, s.recorder)
    /\ outcome' = "ClientWriteFailed"
    /\ pc' = "done"
    /\ timer' = "stopped"
    /\ wbuf' = 0
    /\ UNCHANGED <<routes, r, mr, req, dispatches, backend, hs, call, ctx,
                   chain, other, server>>

\* io.Copy: a Read of the backend body fails before its end
ServeCopyReadFails ==
    /\ pc = "stream"
    /\ res.read < Len(res.Body)
    /\ logs' = LogRequest(logs, r, mr, recorder)
    /\ outcome' = "BackendReadFailed"
    /\ pc' = "done"
    /\ timer' = "stopped"
    /\ wbuf' = 0
    /\ UNCHANGED <<routes, r, mr, req, res, recorder, w, dispatches, backend, hs,
                   call, ctx,
                   chain, other, server>>

\* a relay that answers the Timeout passing mid-body as it would before the
\* headers: http.Error with 504 through the recorder
ServeCopyDeadlineAnswers504 ==
    /\ pc = "stream"
    /\ timer = "running"
    /\ res.read < Len(res.Body)
    /\ timer' = "fired"
    /\ LET s == httpError(Sink(recorder, w), <<"backend timeout">>,
                          StatusGatewayTimeout)
       IN  /\ recorder' = s.recorder
           /\ w' = s.w
           /\ logs' = LogRequest(logs, r, mr, s.recorder)
    /\ outcome' = "RelayTimedOut"
    /\ pc' = "done"
    /\ wbuf' = 0
    /\ UNCHANGED <<routes, r, mr, req, res, dispatches, backend, hs, call, ctx,
                   chain, other, server>>

\* io.Copy: the client's Timeout passes while the backend body is not at its
\* end; the Read fails, the copy ends and the deferred log entry is made
ServeCopyDeadline ==
    /\ pc = "stream"
    /\ timer = "running"
    /\ res.read < Len(res.Body)
    /\ timer' = "fired"
    /\ logs' = LogRequest(logs, r, mr, recorder)
    /\ outcome' = "RelayTimedOut"
    /\ pc' = "done"
    /\ wbuf' = 0
    /\ UNCHANGED <<routes, r, mr, req, res, recorder, w, dispatches, backend, hs,
                   call, ctx,
                   chain, other, server>>

\* io.Copy: the backend body ends; ServeHTTP returns and the deferred log
\* entry is made
ServeCopyEOF ==
    /\ pc = "stream"
    /\ res.read = Len(res.Body)
    /\ logs' = LogRequest(logs, r, mr, recorder)
    /\ outcome' = "Success"
    /\ pc' = "done"
    /\ timer' = "stopped"
    /\ wbuf' = 0
    /\ UNCHANGED <<routes, r, mr, req, res, recorder, w, dispatches, backend, hs,
                   call, ctx,
                   chain, other, server>>

\* stripHopByHopHeaders applied once more to the header set it last produced
StripHeaders ==
    /\ Len(hs) \in 1..2
    /\ hs' = Append(hs, stripHopByHopHeaders(hs[Len(hs)]))
    /\ UNCHANGED <<routes, r, pc, mr, req, res, recorder, w, logs, dispatches,
                   backend, outcome, call, timer, ctx,
                   wbuf, chain, other, server>>

-----------------------------------------------------------------------------
(* main: the server, the stop signal and the route table *)

\* server.ListenAndServe takes a connection and serves its request
Accept ==
    /\ server = "serving"
    /\ pc = "waiting"
    /\ pc' = "start"
    /\ UNCHANGED <<routes, r, mr, req, res, recorder, w, logs, dispatches, backend,
                   outcome, hs, call, timer, ctx, wbuf, chain, other, server>>

\* <-sigChan: main calls server.Shutdown with the 30 s context, which closes
\* the listeners
Signal ==
    /\ server = "serving"
    /\ server' = "draining"
    /\ UNCHANGED <<routes, r, pc, mr, req, res, recorder, w, logs, dispatches,
                   backend, outcome, hs, call, timer, ctx, wbuf, chain, other>>

\* server.Shutdown finds no request in progress and returns nil; main returns
ShutdownReturns ==
    /\ server = "draining"
    /\ pc \in {"waiting", "done"}
    /\ server' = "stopped"
    /\ UNCHANGED <<routes, r, pc, mr, req, res, recorder, w, logs, dispatches,
                   backend, outcome, hs, call, timer, ctx, wbuf, chain, other>>

\* a main that outlives a Shutdown that ran out of time
GraceElapsesMainStays ==
    /\ server = "draining"
    /\ pc \notin {"waiting", "done"}
    /\ server' = "forced"
    /\ UNCHANGED <<routes, r, pc, mr, req, res, recorder, w, logs, dispatches,
                   backend, outcome, hs, call, timer, ctx, wbuf, chain, other>>

\* the 30 s context ends with a request still in progress: server.Shutdown
\* returns its error, main prints it and returns, and the process ends with
\* the goroutine of the request
GraceElapses ==
    /\ server = "draining"
    /\ pc \notin {"waiting", "done"}
    /\ server' = "forced"
    /\ pc' = "killed"
    /\ UNCHANGED <<routes, r, mr, req, res, recorder, w, logs, dispatches, backend,
                   outcome, hs, call, timer, ctx, wbuf, chain, other>>

\* route tables that send the same path to different backends, or nowhere
ServerRouteTables ==
    {[p \in {<<"/", "s">>} |-> Backend1],
     [p \in {<<"/", "s">>} |-> Backend2],
     [p \in {<<"/", "x">>} |-> Backend1]}

\* routes = map[string]string{...} and routes[k] = v: the table becomes
\* another one, as the tests make it, between two steps of the request
RoutesChange ==
    /\ server \in {"serving", "draining"}
    /\ routes' \in ServerRouteTables \ {routes}
    /\ UNCHANGED <<r, pc, mr, req, res, recorder, w, logs, dispatches, backend,
                   outcome, hs, call, timer, ctx, wbuf, chain, other, server>>

\* Two requests at once.  The server runs ServeHTTP for each request on a
\* goroutine of its own; r, rr and the locals of ServeHTTP belong to the
\* goroutine, the route table and the logger to all.  The variables of the
\* goroutine that is not running are kept in other.
Locals ==
    [r |-> r, pc |-> pc, mr |-> mr, req |-> req, res |-> res,
     recorder |-> recorder, w |-> w, backend |-> backend, outcome |-> outcome,
     call |-> call, timer |-> timer, ctx |-> ctx, dispatches |-> dispatches,
     wbuf |-> wbuf]

\* the locals of a goroutine about to handle the request rq
StartLocals(rq) ==
    [r |-> rq, pc |-> "start", mr |-> NoMatch, req |-> NoRequest,
     res |-> NoResponse, recorder |-> NoRecorder, w |-> NoSink,
     backend |-> NoResponse, outcome |-> "none", call |-> NoCall,
     timer |-> "idle", ctx |-> "live", dispatches |-> 0, wbuf |-> 0]

\* a scheduler under which the two goroutines used one responseRecorder
SwitchSharedRecorder ==
    /\ other # NoOther
    /\ other' = Locals
    /\ r' = other.r
    /\ pc' = other.pc
    /\ mr' = other.mr
    /\ req' = other.req
    /\ res' = other.res
    /\ w' = other.w
    /\ backend' = other.backend
    /\ outcome' = other.outcome
    /\ call' = other.call
    /\ timer' = other.timer
    /\ ctx' = other.ctx
    /\ dispatches' = other.dispatches
    /\ wbuf' = other.wbuf
    /\ UNCHANGED <<routes, logs, hs, chain, server, recorder>>

\* the scheduler takes the running goroutine off and puts the other one on
Switch ==
    /\ other # NoOther
    /\ other' = Locals
    /\ r' = other.r
    /\ pc' = other.pc
    /\ mr' = other.mr
    /\ req' = other.req
    /\ res' = other.res
    /\ recorder' = other.recorder
    /\ w' = other.w
    /\ backend' = other.backend
    /\ outcome' = other.outcome
    /\ call' = other.call
    /\ timer' = other.timer
    /\ ctx' = other.ctx
    /\ dispatches' = other.dispatches
    /\ wbuf' = other.wbuf
    /\ UNCHANGED <<routes, logs, hs, chain, server>>

\* what a range over the map may visit while the table is written: each key
\* of either table or not, with the target either table has for it
MixedTables(a, b) ==
    UNION {{m \in [D -> {a[k] : k \in DOMAIN a} \cup {b[k] : k \in DOMAIN b}] :
                \A k \in D : \/ (k \in DOMAIN a /\ m[k] = a[k])
                              \/ (k \in DOMAIN b /\ m[k] = b[k])} :
           D \in SUBSET (DOMAIN a \cup DOMAIN b)}

\* the table is written while matchRoute ranges over it, without any lock: the
\* lookup returns what it made of the entries it happened to visit
ServeHTTPBeginRacing ==
    /\ pc = "start"
    /\ server \in {"serving", "draining"}
    /\ MuxPattern(r.Path) = "/"
    /\ \E t \in ServerRouteTables \ {routes} :
          /\ routes' = t
          /\ \E m \in MixedTables(routes, t) :
                \E order \in Orders(DOMAIN m) :
                    mr' = matchRoute(r.Path, m, order)
    /\ recorder' = [statusCode |-> StatusOK, bytesWritten |-> 0]
    /\ pc' = "matched"
    /\ UNCHANGED <<r, req, res, w, logs, dispatches, backend, outcome, hs,
                   call, timer, ctx, wbuf, chain, other, server>>

\* or the runtime notices the write under the range and ends the process:
\* fatal error: concurrent map iteration and map write
ServeHTTPBeginFatal ==
    /\ pc = "start"
    /\ server \in {"serving", "draining"}
    /\ MuxPattern(r.Path) = "/"
    /\ routes' \in ServerRouteTables \ {routes}
    /\ server' = "crashed"
    /\ pc' = "killed"
    /\ UNCHANGED <<r, mr, req, res, recorder, w, logs, dispatches, backend,
                   outcome, hs, call, timer, ctx, wbuf, chain, other>>

-----------------------------------------------------------------------------
(* specifications *)

\* var routes as configured, and a table with a nested route whose backend
\* base URL does not parse
ServeRouteTables ==
    {[p \in {<<"/", "s">>, <<"/", "x">>} |-> TargetFor(p)],
     [p \in {<<"/", "s">>, <<"/", "s", "/", "s">>} |-> TargetFor(p)]}

ServePaths ==
    {<<"/">>, <<"/", "s">>, <<"/", "s", "/", "x">>, <<"/", "s", "x">>,
     <<"/", "s", "/", "%">>, <<"/", "s", "/", "s">>, HealthPath,
     HealthPath \o <<"/">>}

ServeHeaders ==
    {MakeHeader(<<>>, <<>>, <<>>, {"Authorization"}),
     MakeHeader(<< <<"keep-alive">> >>, << <<"10.0.0.1">> >>, <<>>, {"Keep-Alive"})}

\* request body lengths with the Content-Length announced for them (-1: none)
ServeBodies ==
    {<<0, 0>>, <<maxBodySize, maxBodySize>>, <<maxBodySize + 1, maxBodySize + 1>>,
     <<maxBodySize + 1, -1>>}

ServeRemoteAddrs == {<<"192.168.1.1", ":", "12345">>, <<"10.0.0.1">>}

\* the clients of the run: a header set and the address it comes from
ServeClients ==
    {c \in ServeHeaders \X ServeRemoteAddrs :
        ("Authorization" \in DOMAIN c[1]) <=> (c[2] = <<"10.0.0.1">>)}

\* the whole handler, for one request
Init ==
    /\ routes \in ServeRouteTables
    /\ r \in {Request(p, c[1], c[2], <<"proxy.example">>, b[1], b[2]) :
                p \in ServePaths, c \in ServeClients, b \in ServeBodies}
    /\ Idle
    /\ hs = <<>>

Next ==
    \/ healthCheckHandler
    \/ ServeHTTPBegin
    \/ ServeNotFound
    \/ ServeNewRequestFails
    \/ ServePrepare
    \/ ServeDo
    \/ DoDialFails
    \/ DoConnects
    \/ DoBodyForwarded
    \/ DoBodyTooLarge
    \/ DoBodyReadFails
    \/ DoDeadline
    \/ DoRedirected
    \/ ServeDoResponds
    \/ ClientDisconnects
    \/ ServeCopyDeadline
    \/ ServeCopyChunk
    \/ ServeCopyWriteFails
    \/ ServeCopyReadFails
    \/ ServeCopyEOF

Spec == Init /\ [][Next]_vars

\* the whole handler under the scheduling the runtime gives it: a goroutine
\* that can take a step of its own takes it, the client's Timeout passes
\* when it is running, and a body read to its end reports its end; nothing
\* is promised of the backend
InitLive ==
    /\ routes = [p \in {<<"/", "s">>, <<"/", "s", "/", "s">>} |-> TargetFor(p)]
    /\ r \in {Request(p, MakeHeader(<<>>, <<>>, <<>>, {"Authorization"}),
                       <<"10.0.0.1">>, <<"proxy.example">>, b[1], b[2]) :
                p \in {<<"/", "x">>, <<"/", "s", "/", "x">>, <<"/", "s", "/", "s">>,
                       HealthPath},
                b \in {<<0, 0>>, <<maxBodySize + 1, maxBodySize + 1>>}}
    /\ Idle
    /\ hs = <<>>

LiveFairness ==
    /\ WF_vars(healthCheckHandler)
    /\ WF_vars(ServeHTTPBegin)
    /\ WF_vars(ServeNotFound)
    /\ WF_vars(ServeNewRequestFails)
    /\ WF_vars(ServePrepare)
    /\ WF_vars(ServeDo)
    /\ WF_vars(DoDeadline)
    /\ WF_vars(ServeCopyDeadline)
    /\ WF_vars(ServeCopyEOF)

SpecLive == InitLive /\ [][Next]_vars /\ LiveFairness

\* the server from before a request arrives to the end of main
InitServer ==
    /\ routes = [p \in {<<"/", "s">>, <<"/", "x">>} |-> TargetFor(p)]
    /\ r \in {Request(p, MakeHeader(<<>>, <<>>, <<>>, {"Authorization"}),
                       <<"10.0.0.1">>, <<"proxy.example">>, b[1], b[2]) :
                p \in {<<"/", "s", "/", "x">>, <<"/", "s", "/", "%">>, <<"/">>,
                       HealthPath},
                b \in {<<0, 0>>, <<maxBodySize + 1, maxBodySize + 1>>}}
    /\ pc = "waiting"
    /\ other = NoOther
    /\ Quiet
    /\ hs = <<>>

NextServer ==
    \/ Next
    \/ Accept
    \/ Signal
    \/ ShutdownReturns
    \/ GraceElapses

SpecServer == InitServer /\ [][NextServer]_vars

\* the handler for one request while the route table is replaced under it
InitReconfig ==
    /\ routes \in ServerRouteTables
    /\ r \in {Request(p, MakeHeader(<<>>, <<>>, <<>>, {"Authorization"}),
                       <<"10.0.0.1">>, <<"proxy.example">>, b[1], b[2]) :
                p \in {<<"/", "s", "/", "x">>, <<"/", "s", "/", "%">>, HealthPath},
                b \in {<<0, 0>>, <<maxBodySize + 1, maxBodySize + 1>>}}
    /\ Idle
    /\ hs = <<>>

NextReconfig ==
    \/ Next
    \/ RoutesChange
    \/ ServeHTTPBeginRacing
    \/ ServeHTTPBeginFatal

SpecReconfig == InitReconfig /\ [][NextReconfig]_vars

\* errorHandler on its own: every error value
InitClassify ==
    /\ routes = [p \in {<<"/", "s">>, <<"/", "x">>} |-> TargetFor(p)]
    /\ r = Request(<<"/", "s">>, EmptyHeader, <<"10.0.0.1", ":", "1">>, <<"proxy.example">>, 0, 0)
    /\ pc = "error"
    /\ other = NoOther
    /\ mr = NoMatch
    /\ req = NoRequest
    /\ res = NoResponse
    /\ backend = NoResponse
    /\ recorder = [statusCode |-> StatusOK, bytesWritten |-> 0]
    /\ w = NoSink
    /\ logs = <<>>
    /\ dispatches = 0
    /\ outcome = "none"
    /\ call = NoCall
    /\ timer = "idle"
    /\ ctx = "live"
    /\ wbuf = 0
    /\ chain \in ErrorChains
    /\ server = "serving"
    /\ hs = <<>>

NextClassify == errorHandler

SpecClassify == InitClassify /\ [][NextClassify]_vars

\* two requests in flight together, for different paths, and backends that
\* answer with one of a few responses
PairResponses ==
    {resp \in BackendResponses :
        /\ resp.Header = MakeHeader(<<>>, <<>>, <<>>, {"Content-Type"})
        /\ \/ resp.StatusCode = StatusOK /\ resp.Body = <<"a", "b">>
           \/ resp.StatusCode = 503 /\ resp.Body = <<>>}

PairRequest(path, b) ==
    Request(path, MakeHeader(<<>>, <<>>, <<>>, {"Authorization"}),
            <<"10.0.0.1">>, <<"proxy.example">>, b[1], b[2])

InitPair ==
    /\ routes = [p \in {<<"/", "s">>, <<"/", "x">>} |-> TargetFor(p)]
    /\ r \in {PairRequest(p, b) :
                p \in {<<"/", "s", "/", "x">>, <<"/", "s", "/", "%">>},
                b \in {<<0, 0>>, <<maxBodySize + 1, maxBodySize + 1>>}}
    /\ pc = "start"
    /\ Quiet
    /\ other \in {StartLocals(PairRequest(p, <<0, 0>>)) :
                    p \in {<<"/", "x", "/", "y">>, <<"/">>, HealthPath}}
    /\ hs = <<>>

NextPair ==
    \/ healthCheckHandler
    \/ ServeHTTPBegin
    \/ ServeNotFound
    \/ ServeNewRequestFails
    \/ ServePrepare
    \/ ServeDo
    \/ DoDialFails
    \/ DoConnects
    \/ DoBodyForwarded
    \/ DoBodyTooLarge
    \/ DoBodyReadFails
    \/ DoDeadline
    \/ DoRedirected
    \/ ServeDoResponds /\ backend' \in PairResponses
    \/ ClientDisconnects
    \/ ServeCopyDeadline
    \/ ServeCopyChunk
    \/ ServeCopyWriteFails
    \/ ServeCopyReadFails
    \/ ServeCopyEOF
    \/ Switch

SpecPair == InitPair /\ [][NextPair]_vars

\* matchRoute on its own: every route table against every path
InitRoute ==
    /\ routes \in RouteTables
    /\ r \in {Request(p, EmptyHeader, <<"10.0.0.1", ":", "1">>, <<"proxy.example">>, 0, 0) :
                p \in Paths}
    /\ Idle
    /\ hs = <<>>

NextRoute == ServeHTTPBegin

SpecRoute == InitRoute /\ [][NextRoute]_vars

\* stripHopByHopHeaders on its own, applied up to twice
InitStrip ==
    /\ routes \in {[p \in {<<"/", "s">>, <<"/", "x">>} |-> TargetFor(p)]}
    /\ r = Request(<<"/">>, EmptyHeader, <<"10.0.0.1", ":", "1">>, <<"proxy.example">>, 0, 0)
    /\ Idle
    /\ hs \in {<<h>> : h \in StripInputs}

NextStrip == StripHeaders

SpecStrip == InitStrip /\ [][NextStrip]_vars

\* the preparation of the outbound request: every inbound header set,
\* remote address and Host against a route that matches
InitHeaders ==
    /\ routes \in {[p \in {<<"/", "s">>, <<"/", "x">>} |-> TargetFor(p)]}
    /\ r \in {Request(<<"/", "s", "/", "x">>, h, a, host, 0, 0) :
                h \in ProxyInputs, a \in RemoteAddrs, host \in Hosts}
    /\ Idle
    /\ hs = <<>>

NextHeaders ==
    \/ ServeHTTPBegin
    \/ ServePrepare

SpecHeaders == InitHeaders /\ [][NextHeaders]_vars

-----------------------------------------------------------------------------
(* the properties checked *)

\* a prefix matches a path at a segment boundary: the path is the prefix,
\* or the prefix followed by "/" and anything
PrefixMatches(prefix, path) ==
    path = prefix \/ HasPrefix(path, prefix \o <<"/">>)

\* the configured prefixes that match the request path
Matching == {prefix \in DOMAIN routes : PrefixMatches(prefix, r.Path)}

\* C1: matchRoute returns a configured prefix that matches the path at a
\* segment boundary exactly when one does, the one returned is the longest
\* of them, a prefix that is only a string prefix of the path is never
\* returned, and without a matching prefix the three outputs are empty.
C1_LongestBoundaryMatch ==
    pc = "matched" =>
        /\ Matching = {} => mr = NoMatch
        /\ Matching # {} =>
              /\ mr.match \in Matching
              /\ \A prefix \in Matching : Len(prefix) <= Len(mr.match)
        /\ mr.match # <<>> => PrefixMatches(mr.match, r.Path)

\* a route matched although a longer configured prefix is a string prefix
\* of the path without a boundary after it
C1_Witness ==
    /\ pc = "matched"
    /\ mr.match # <<>>
    /\ \E prefix \in DOMAIN routes :
          /\ HasPrefix(r.Path, prefix)
          /\ Len(prefix) > Len(mr.match)
          /\ ~PrefixMatches(prefix, r.Path)

\* C2: on a hit the returned prefix followed by the returned remainder is
\* the path, and the remainder is empty (the path is the prefix) or starts
\* with "/".
C2_PrefixPlusRemainderIsPath ==
    (pc = "matched" /\ mr.match # <<>>) =>
        /\ mr.match \o mr.suffix = r.Path
        /\ mr.suffix = <<>> \/ Head(mr.suffix) = "/"
        /\ mr.suffix = <<>> <=> r.Path = mr.match

\* a hit with a remainder left over
C2_Witness ==
    /\ pc = "matched"
    /\ mr.match # <<>>
    /\ Len(mr.suffix) >= 2

\* C3: a request that matches no route is answered 404 with a body that
\* contains the request path.
C3_NotFoundBodyNamesPath ==
    outcome = "RouteMiss" =>
        /\ w.status = <<StatusNotFound>>
        /\ Contains(w.body, r.Path)

\* C4: every request gets exactly one LogRequest call, made when ServeHTTP
\* returns, whichever return it takes; none is made before, and the entry
\* is the request's.  The requests are those the mux hands to ServeHTTP.
C4_OneCompletionRecord ==
    MuxPattern(r.Path) = "/" =>
        /\ pc = "done" => (Len(logs) = 1 /\ logs[1].Path = r.Path)
        /\ pc # "done" => logs = <<>>
        /\ pc = "done" <=> outcome # "none"

\* a relay cut short by the client, logged once
C4_Witness ==
    /\ pc = "done"
    /\ outcome = "ClientWriteFailed"
    /\ Len(logs) = 1

\* the canonical names of the fixed hop-by-hop headers
HopByHopNames == {CanonicalWord(hopByHopHeaders[i]) : i \in 1..Len(hopByHopHeaders)}

\* the header names listed in the lines of a header set's Connection
\* header: the comma-separated, trimmed tokens of every line
ConnectionTokens(h) ==
    IF "Connection" \notin DOMAIN h THEN {}
    ELSE LET tokens == UNION {{TrimSpace(t) : t \in Range(Split(v, ","))} :
                                 v \in Range(h["Connection"])}
         IN  {CanonicalWord(t[1]) : t \in {u \in tokens : Len(u) = 1}}

\* a header set without its hop-by-hop headers
WithoutHopByHop(h) ==
    [n \in DOMAIN h \ (HopByHopNames \cup ConnectionTokens(h)) |-> h[n]]

\* C5: after a successful forward the client has the backend's status, a
\* byte-identical body, and the backend's headers with the hop-by-hop
\* headers removed and every other header unchanged.
C5_RelayIsFaithful ==
    outcome = "Success" =>
        /\ w.status = <<backend.StatusCode>>
        /\ w.body = backend.Body
        /\ w.Header = WithoutHopByHop(backend.Header)

\* C6: after stripHopByHopHeaders the header set holds none of the fixed
\* hop-by-hop headers and no header named by a token of any line of the
\* Connection header it had before.
C6_NoHopByHopAfterStrip ==
    Len(hs) >= 2 =>
        DOMAIN hs[2] \cap (HopByHopNames \cup ConnectionTokens(hs[1])) = {}

\* C7: stripHopByHopHeaders is idempotent: a second application leaves the
\* header set the first one produced.
C7_StripIdempotent ==
    Len(hs) = 3 => hs[3] = hs[2]

\* stripped twice, a header set with two Connection lines that the first
\* application changed
C7_Witness ==
    /\ Len(hs) = 3
    /\ hs[2] # hs[1]
    /\ "Connection" \in DOMAIN hs[1]
    /\ Len(hs[1]["Connection"]) = 2

\* the lines of a header joined into one chain by ", "
RECURSIVE JoinValues(_)
JoinValues(values) ==
    IF values = <<>> THEN <<>>
    ELSE IF Len(values) = 1 THEN values[1]
    ELSE values[1] \o <<",", " ">> \o JoinValues(Tail(values))

\* C8: the outbound X-Forwarded-For is the inbound chain followed by ", "
\* and the client IP when the inbound request carries X-Forwarded-For, and
\* the client IP alone when it carries none.  Stated for the requests whose
\* X-Forwarded-For lines are not empty and are not named hop-by-hop by the
\* Connection header.
C8_ForwardedForChainKept ==
    (/\ pc = "prepared"
     /\ "X-Forwarded-For" \notin ConnectionTokens(r.Header)
     /\ "X-Forwarded-For" \in DOMAIN r.Header =>
           \A i \in 1..Len(r.Header["X-Forwarded-For"]) :
               r.Header["X-Forwarded-For"][i] # <<>>)
    => /\ "X-Forwarded-For" \in DOMAIN req.Header
       /\ req.Header["X-Forwarded-For"] =
            << IF "X-Forwarded-For" \in DOMAIN r.Header
               THEN JoinValues(r.Header["X-Forwarded-For"]) \o <<",", " ">>
                        \o proxyClientIP(r.RemoteAddr)
               ELSE proxyClientIP(r.RemoteAddr) >>

\* C9: the outbound X-Real-IP is the derived client IP as a single value,
\* whatever X-Real-IP the inbound request supplied.
C9_RealIPOverwritten ==
    pc = "prepared" =>
        /\ "X-Real-Ip" \in DOMAIN req.Header
        /\ req.Header["X-Real-Ip"] = <<proxyClientIP(r.RemoteAddr)>>

\* an outbound request prepared from an inbound one that supplied two
\* X-Real-IP lines of its own
C9_Witness ==
    /\ pc = "prepared"
    /\ "X-Real-Ip" \in DOMAIN r.Header
    /\ Len(r.Header["X-Real-Ip"]) = 2
    /\ r.Header["X-Real-Ip"][1] # proxyClientIP(r.RemoteAddr)

\* C10: the outbound request's Host is the inbound request's Host, not the
\* host of the backend URL.
C10_HostPreserved ==
    pc = "prepared" => req.Host = r.Host

\* an outbound request whose backend host differs from the inbound Host
C10_Witness ==
    /\ pc = "prepared"
    /\ req.url # <<>>
    /\ URLHost(req.url) # r.Host
    /\ req.Host = r.Host

\* the backend was reached and read the request before it answered, or the
\* request was given up over its body: the call ended neither on a refused
\* or timed-out dial, nor on the Timeout, nor on a client that went away, nor
\* on a response sent before the body had been read
BackendReadTheRequest ==
    /\ call.phase = "returned"
    /\ call.cause \in {"ceiling", "response"}
    /\ ~call.early

\* C11: a request body of exactly maxBodySize bytes never meets the ceiling:
\* it is never answered 413, and a backend that reads it gets it whole and
\* has its response relayed; a body of maxBodySize + 1 bytes sent to a
\* backend that reads the request before it answers is answered 413.
C11_CeilingBoundary ==
    /\ r.BodyLen = maxBodySize =>
          /\ call.cause # "ceiling"
          /\ w.status # <<StatusRequestEntityTooLarge>>
          /\ BackendReadTheRequest =>
                /\ call.body = "forwarded"
                /\ w.status = <<backend.StatusCode>>
    /\ (r.BodyLen = maxBodySize + 1 /\ BackendReadTheRequest) =>
          /\ call.body = "pending"
          /\ outcome = "BodyTooLarge"
          /\ w.status = <<StatusRequestEntityTooLarge>>

\* a body one byte over the ceiling, answered 413
C11_Witness ==
    /\ pc = "done"
    /\ r.BodyLen = maxBodySize + 1
    /\ call.sent = 1
    /\ w.status = <<StatusRequestEntityTooLarge>>


\* C12: when a Read of the request body goes past the ceiling, p.client.Do
\* fails with a *http.MaxBytesError in its error, and that error is answered
\* 413 and logged as 413, never 502 or 504, whatever else the error reports.
C12_BodyTooLargeNeverUnreachable ==
    /\ call.cause = "ceiling" =>
          /\ ExceedsCeiling(r.BodyLen)
          /\ DoError(call.cause).maxBytes
          /\ outcome = "BodyTooLarge"
          /\ w.status = <<StatusRequestEntityTooLarge>>
          /\ logs[1].Status = StatusRequestEntityTooLarge
    /\ \A timeout \in BOOLEAN :
          classify(DispatchError(TRUE, timeout)).status = StatusRequestEntityTooLarge

\* a body announced without a length runs past the ceiling while it is
\* forwarded
C12_Witness ==
    /\ pc = "done"
    /\ call.cause = "ceiling"
    /\ r.ContentLength = -1
    /\ outcome = "BodyTooLarge"

C14_FixedMessages ==
    /\ outcome = "BodyTooLarge" => w.body = <<"request body too large", "\n">>
    /\ outcome = "Timeout" => w.body = <<"backend timeout", "\n">>
    /\ outcome = "Unreachable" => w.body = <<"backend unavailable", "\n">>

\* C15: a failure to build the outbound request ends the request with status
\* 502, with no p.client.Do call and no request sent to a backend, and the
\* handler returns as on any other path, its log entry made.
C15_PrepareFailureIsBadGateway ==
    outcome = "PrepareFailure" =>
        /\ w.status = <<StatusBadGateway>>
        /\ dispatches = 0
        /\ call.sent = 0
        /\ pc = "done"
        /\ Len(logs) = 1

\* C16: a request makes at most one p.client.Do call and has at most one
\* request sent to a backend for it, and a call that fails ends the request
\* with the answer of that failure.
C16_AtMostOneDispatch ==
    /\ dispatches <= 1
    /\ call.sent <= 1
    /\ call.cause \in DoCauses =>
          /\ pc = "done"
          /\ w.status = <<classify(DoError(call.cause)).status>>

\* C17: the ResponseSize of the log entry is the number of body bytes the
\* client's writer took, which is the length of the body the client holds;
\* when a Write to the client fails mid-relay it is the bytes taken up to
\* the failure, at most the bytes read from the backend.  (Lengths count the
\* elements of a body as this module writes bodies.)
C17_ResponseSizeIsBytesDelivered ==
    /\ recorder # NoRecorder => recorder.bytesWritten = Len(w.body)
    /\ Len(logs) = 1 =>
          /\ logs[1].ResponseSize = Len(w.body)
          /\ backend # NoResponse => logs[1].ResponseSize <= res.read

\* the client took one byte of two read from the backend and the next Write
\* failed
C17_Witness ==
    /\ pc = "done"
    /\ outcome = "ClientWriteFailed"
    /\ Len(logs) = 1
    /\ logs[1].ResponseSize = 1
    /\ res.read = 2

\* C18: a request for /health is answered 200 with the body OK by
\* healthCheckHandler: ServeHTTP never runs for it, so there is no recorder,
\* no matchRoute call, no log entry, no p.client.Do call and no request to a
\* backend.
C18_HealthCheck ==
    r.Path = HealthPath =>
        /\ pc \in {"start", "done"}
        /\ recorder = NoRecorder
        /\ mr = NoMatch
        /\ logs = <<>>
        /\ dispatches = 0
        /\ call = NoCall
        /\ pc = "done" =>
              /\ outcome = "Health"
              /\ w.status = <<StatusOK>>
              /\ w.body = <<"O", "K">>

\* the health check answered
C18_Witness ==
    /\ r.Path = HealthPath
    /\ pc = "done"
    /\ w.body = <<"O", "K">>

\* C19: once the client is gone while p.client.Do is in flight, the call is
\* given up: it does not go on to end with the backend's response or with the
\* Timeout passing.
C19_DisconnectCancelsCall ==
    ctx = "cancelled" => call.cause \notin {"response", "deadline"}

C21_EveryRequestEnds ==
    <>(/\ pc = "done"
       /\ w.status # <<>>
       /\ MuxPattern(r.Path) = "/" => Len(logs) = 1)

\* a backend that never takes the connection: the Timeout ended the request
C21_Witness ==
    /\ pc = "done"
    /\ timer = "fired"
    /\ call.sent = 0
    /\ Len(logs) = 1

\* C22: once the stop signal has come no request is taken up any more, and
\* when main has returned no request is in progress: after a Shutdown that
\* returned in time the request has finished or was never taken up, and after
\* the 30 s ran out the request still in progress has ended with the process.
C22_ShutdownBoundsRequests ==
    /\ [][server # "serving" => ~(pc = "waiting" /\ pc' # "waiting")]_vars
    /\ [](/\ server = "stopped" => pc \in {"waiting", "done"}
          /\ server = "forced" => pc = "killed")

\* the grace period ran out on a request whose backend call was under way
C22_Witness ==
    /\ server = "forced"
    /\ pc = "killed"
    /\ call.phase = "connected"

AddrMarks == {":", "[", "]"}

\* host:port, the host without colon or bracket: the places of the colon
PlainHostPort(a) ==
    {i \in 2..Len(a) :
        /\ a[i] = ":"
        /\ \A j \in 1..Len(a) : (j # i) => a[j] \notin AddrMarks}

\* [host]:port, the host between the brackets: the places of the colon
BracketedHostPort(a) ==
    {i \in 3..Len(a) :
        /\ a[1] = "["
        /\ a[i - 1] = "]"
        /\ a[i] = ":"
        /\ \A j \in 2..(i - 2) : a[j] \notin {"[", "]"}
        /\ \A j \in (i + 1)..Len(a) : a[j] \notin AddrMarks}

\* C24: the client IP put in X-Real-IP is the host of a remote address of the
\* form host:port, the part between the brackets for [host]:port, and the
\* remote address as it is when it has neither form.
C24_ClientIPFromRemoteAddr ==
    pc = "prepared" =>
        LET a  == r.RemoteAddr
            ip == Get(req.Header, "X-Real-IP")
        IN  /\ \A i \in PlainHostPort(a) : ip = SubSeq(a, 1, i - 1)
            /\ \A i \in BracketedHostPort(a) : ip = SubSeq(a, 2, i - 2)
            /\ (PlainHostPort(a) = {} /\ BracketedHostPort(a) = {}) => ip = a

\* a bracketed IPv6 address with a port
C24_Witness ==
    /\ pc = "prepared"
    /\ BracketedHostPort(r.RemoteAddr) # {}
    /\ Get(req.Header, "X-Real-IP") = <<":", ":", "1">>

\* the cause of an error value: the innermost error of its chain
Cause(e) == e[Len(e)]

\* C25: an error whose cause is a *http.MaxBytesError is answered 413 and
\* one whose cause is context.DeadlineExceeded is answered 504 under any
\* wrappers, as the cause alone is; an error is never classified by its text:
\* a plain error is answered 502 whatever it says.
C25_ClassifiedByTypedCause ==
    pc = "done" =>
        /\ Cause(chain) = "MaxBytesError" =>
              /\ w.status = <<StatusRequestEntityTooLarge>>
              /\ outcome = FailureKind(Flags(<<Cause(chain)>>))
        /\ Cause(chain) = "DeadlineExceeded" =>
              /\ w.status = <<StatusGatewayTimeout>>
              /\ outcome = FailureKind(Flags(<<Cause(chain)>>))
        /\ Cause(chain) = "errorString" => w.status = <<StatusBadGateway>>

\* a deadline under three wrappers, the outermost one without a Timeout
\* method
C25_Witness ==
    /\ pc = "done"
    /\ Len(chain) = 4
    /\ chain[1] = "wrapError"
    /\ Cause(chain) = "DeadlineExceeded"
    /\ w.status = <<StatusGatewayTimeout>>

\* the request has got as far as a backend: the client has started a call
BackendContacted == dispatches > 0 \/ call # NoCall

\* C26: the steps of a request come in the order lookup, prepare, dispatch,
\* then relay or classification: a backend is contacted only with a route hit
\* and the outbound request built for it, a request without a route never
\* contacts a backend, and no status goes to the client while the lookup, the
\* preparation or the dispatch is still going on.
C26_StepsInOrder ==
    /\ BackendContacted =>
          /\ mr.match # <<>>
          /\ req # NoRequest
          /\ pc \in {"dispatching", "stream", "done"}
    /\ (outcome = "RouteMiss" \/ (pc = "done" /\ MuxPattern(r.Path) = "/" /\ mr.match = <<>>)) =>
          ~BackendContacted /\ backend = NoResponse
    /\ pc \in {"start", "matched", "prepared", "dispatching"} => w.status = <<>>
    /\ (pc = "stream" \/ res # NoResponse) => call.phase = "returned"

\* a request answered with its backend's response after a call that reached
\* the backend
C26_Witness ==
    /\ pc = "done"
    /\ mr.match # <<>>
    /\ call.sent = 1
    /\ call.phase = "returned"
    /\ w.status = <<res.StatusCode>>

\* C27: a request resolves its route once: whatever becomes of the route table
\* afterwards, the resolution stays as it is, the outbound request goes to the
\* target of that resolution and the log entry names that same target.
C27_RouteResolvedOnce ==
    [][/\ pc \notin {"waiting", "start"} => mr' = mr
       /\ req' # NoRequest => req'.url = mr'.target \o mr'.suffix
       /\ \A i \in 1..Len(logs') : logs'[i].Backend = mr'.target]_vars

\* a request sent to and logged with a backend the table no longer has for
\* its path
C27_Witness ==
    /\ pc = "done"
    /\ call.sent > 0
    /\ Len(logs) = 1
    /\ mr.target = Backend1
    /\ logs[1].Backend = Backend1
    /\ req.url = Backend1 \o mr.suffix
    /\ \A order \in Orders(DOMAIN routes) :
          matchRoute(r.Path, routes, order).target # Backend1

\* the log entries of the request with the locals L
EntriesOf(L) == SelectSeq(logs, LAMBDA le : le.Path = L.r.Path)

\* what a request that ran alone ends with, as a relation between the
\* request, the route table, what its backend did, the response the client
\* got and the log entries
SoloResult(L, entries) ==
    IF MuxPattern(L.r.Path) # "/"
    THEN /\ entries = <<>>
         /\ L.w.status = <<StatusOK>>
         /\ L.recorder = NoRecorder
         /\ L.dispatches = 0
    ELSE /\ Len(entries) = 1
         /\ L.mr \in {matchRoute(L.r.Path, routes, o) : o \in Orders(DOMAIN routes)}
         /\ entries[1] = LogEntry(L.r, L.mr, L.recorder)
         /\ L.recorder.bytesWritten = Len(L.w.body)
         /\ L.w.status = <<L.recorder.statusCode>>
         /\ L.mr.match = <<>> <=> L.outcome = "RouteMiss"
         /\ L.outcome = "RouteMiss" => L.w.status = <<StatusNotFound>>
         /\ L.outcome = "PrepareFailure" =>
               L.w.status = <<StatusInternalServerError>>
         /\ L.outcome \in {"RouteMiss", "PrepareFailure"} => L.dispatches = 0
         /\ L.backend = NoResponse =>
               /\ L.w.Header = httpError(Sink(NoRecorder, NoSink), <<>>, 0).w.Header
               /\ L.outcome \in {"BodyTooLarge", "Timeout", "Unreachable"} =>
                     /\ L.call.cause \in DoCauses
                     /\ L.w.status = <<classify(DoError(L.call.cause)).status>>
                     /\ L.w.body = httpError(Sink(NoRecorder, NoSink),
                                             classify(DoError(L.call.cause)).message,
                                             0).w.body
         /\ L.backend # NoResponse =>
               /\ L.w.status = <<L.backend.StatusCode>>
               /\ L.w.Header = CopyHeader(EmptyHeader,
                                          stripHopByHopHeaders(L.backend.Header))
               /\ Len(L.w.body) <= L.res.read
               /\ L.w.body = SubSeq(L.backend.Body, 1, Len(L.w.body))

\* the relation holds of the request that runs alone
SoloResultAlone == pc = "done" => SoloResult(Locals, logs)

\* C28: of two requests in flight together, under every interleaving of their
\* steps, each ends with the response and the one log entry it ends with
\* alone, and has no log entry before it ends: the status and the byte count
\* of a request are those of its own responseRecorder.
C28_NoInterference ==
    /\ pc = "done" => SoloResult(Locals, EntriesOf(Locals))
    /\ pc # "done" => EntriesOf(Locals) = <<>>
    /\ other # NoOther =>
          /\ other.pc = "done" => SoloResult(other, EntriesOf(other))
          /\ other.pc # "done" => EntriesOf(other) = <<>>

\* both requests relayed, one a 200 with its two bytes and the other a 503
C28_Witness ==
    /\ other # NoOther
    /\ pc = "done"
    /\ other.pc = "done"
    /\ Len(logs) = 2
    /\ logs[1].Path = r.Path
    /\ logs[1].Status = 503
    /\ logs[2].Status = StatusOK
    /\ logs[2].ResponseSize = 2
    /\ other.w.body = <<"a", "b">>

\* C29: what the relay has written for the client it has also sent: while the
\* backend's body is being copied, no byte stays behind in the server's write
\* buffer waiting for the rest of the response.
C29_ChunkDeliveredOnArrival ==
    pc = "stream" => wbuf = 0

\* C30: the result of matchRoute does not depend on the order in which the
\* range visits the map: every order gives the prefix, target and remainder
\* the lookup returned, and no two different keys of the same length both
\* match the path.
C30_OrderIndependent ==
    pc = "matched" =>
        /\ \A order \in Orders(DOMAIN routes) :
              matchRoute(r.Path, routes, order) = mr
        /\ \A p, q \in DOMAIN routes :
              (p # q /\ RouteMatches(r.Path, p) /\ RouteMatches(r.Path, q))
                  => Len(p) # Len(q)

\* two routes match the path, so that the order of the visit could matter
C30_Witness ==
    /\ pc = "matched"
    /\ \E p, q \in DOMAIN routes :
          /\ p # <<>>
          /\ q # <<>>
          /\ Len(p) < Len(q)
          /\ RouteMatches(r.Path, p)
          /\ RouteMatches(r.Path, q)
          /\ mr.match = q
          /\ mr.target = routes[q]

\* the last element of a comma-separated list
LastElement(v) ==
    LET parts == Split(v, ",")
    IN  TrimSpace(parts[Len(parts)])

\* the three headers setProxyHeaders sets, on the outbound request
ProxyHeadersSet ==
    /\ "X-Real-Ip" \in DOMAIN req.Header
    /\ req.Header["X-Real-Ip"] = <<proxyClientIP(r.RemoteAddr)>>
    /\ "X-Forwarded-Proto" \in DOMAIN req.Header
    /\ req.Header["X-Forwarded-Proto"] = << <<"http">> >>
    /\ "X-Forwarded-For" \in DOMAIN req.Header
    /\ Len(req.Header["X-Forwarded-For"]) = 1
    /\ LastElement(req.Header["X-Forwarded-For"][1]) =
          TrimSpace(proxyClientIP(r.RemoteAddr))

\* C31: the outbound request has X-Real-IP with the client IP, X-Forwarded-Proto
\* with "http" and an X-Forwarded-For that ends with the client IP, whatever
\* the inbound headers; an inbound X-Forwarded-For that the inbound Connection
\* header names is dropped, so that the outbound one is the client IP alone.
C31_ProxyHeadersAlwaysSet ==
    pc = "prepared" =>
        /\ ProxyHeadersSet
        /\ "X-Forwarded-For" \in ConnectionTokens(r.Header) =>
              req.Header["X-Forwarded-For"] = <<proxyClientIP(r.RemoteAddr)>>

\* C32: the client IP of a request's log entry is the client IP its outbound
\* request carries in X-Real-IP, whatever the remote address, one without a
\* port included.
C32_LoggedClientIPIsRealIP ==
    (Len(logs) = 1 /\ req # NoRequest) =>
        req.Header["X-Real-Ip"] = <<logs[1].ClientIP>>

\* C33: ServeHTTP writes a status to the client once on every path and not
\* more than once at any time, and the log entry has the status the client
\* was sent: 404 on a miss, 500 when the outbound request could not be built,
\* the classified status on a failed dispatch and the backend's status on a
\* relay; the 200 the recorder is made with is logged only when 200 was sent.
C33_StatusWrittenOnceAndLogged ==
    /\ Len(w.status) <= 1
    /\ (pc = "done" /\ MuxPattern(r.Path) = "/") =>
          /\ Len(w.status) = 1
          /\ Len(logs) = 1
          /\ logs[1].Status = w.status[1]
          /\ outcome = "RouteMiss" => logs[1].Status = StatusNotFound
          /\ outcome = "PrepareFailure" =>
                logs[1].Status = StatusInternalServerError
          /\ outcome \in {"BodyTooLarge", "Timeout", "Unreachable"} =>
                logs[1].Status = classify(DoError(call.cause)).status
          /\ backend # NoResponse => logs[1].Status = backend.StatusCode

\* a relay of a backend's 503, cut short or not
C33_Witness ==
    /\ pc = "done"
    /\ backend.StatusCode = 503
    /\ w.status = <<503>>
    /\ Len(logs) = 1
    /\ logs[1].Status = 503

=============================================================================
